---- MODULE Spec2Model ----
(***************************************************************************)
(* Dual-store data layer of Village.py: DatabaseManager (the connection    *)
(* arbiter), DatabaseSyncManager (change tracker, sync engine, conflict    *)
(* store) and the Members CRUD functions that call them.                   *)
(*                                                                         *)
(* The primary store is MySQL (mysql_db), the secondary store is SQLite    *)
(* (sqlite_db).  Rows of the enrolled table Members are modelled with the  *)
(* columns member_id, name, status and created_at.  created_at stands for  *)
(* the columns whose Python type depends on the store: SQLite returns TEXT *)
(* as str, mysql.connector returns TIMESTAMP, DATE and DECIMAL columns as  *)
(* datetime, date and Decimal objects.  MD5 is taken to be collision free: *)
(* a data hash is the key-sorted list of the (key, value) pairs it digests.*)
(***************************************************************************)
EXTENDS Integers, Sequences, FiniteSets, TLC

\* ------------------------------------------------------------------ bounds
MaxId == 1
MaxName == 2
MaxTrack == 2
MaxClock == 1
MaxThreadsTrack == 1
MaxUser == 1
MaxConflicts == 2

RecIds == 1..MaxId
Names == 1..MaxName
Usernames == 1..MaxUser
\* readings of datetime.now(), a wall clock that may be set back
Times == 0..MaxClock

\* The mysql.connector module imported successfully (Village.py line 199).
MYSQL_AVAILABLE == TRUE

\* Python None for a row that a SELECT did not find.
NoRow == [absent |-> TRUE]

\* No session has run since the last CRUD call (history only).  After a
\* session last_run holds its locals, and again tells that the session before
\* it ran with no CRUD call in between.
NoRun == [ran |-> FALSE]
\* No session is inside its for loop; conflicts is len(self.conflicts), the
\* in-memory list of DatabaseSyncManager, empty at construction.
NoLoop == [running |-> FALSE, conflicts |-> 0]

Threads == {"monitor", "edge", "manual"}

VARIABLES
    mysqlUp,                \* environment: the MySQL server accepts connections
    mysql_db,               \* primary store, Members: member_id -> row or NoRow
    sqlite_db,              \* secondary store, Members
    mysql_seq,              \* AUTO_INCREMENT of Members.member_id in MySQL
    sqlite_seq,             \* sqlite_sequence of Members (AUTOINCREMENT)
    sqlite_users,           \* secondary store, Users: the usernames present
    SyncTracking,           \* SQLite table SyncTracking, in sync_id order
    ConflictResolution,     \* SQLite table ConflictResolution, in conflict_id order
    current_db_type,        \* DatabaseManager.current_db_type
    mysql_available,        \* DatabaseManager.mysql_available
    sqlite_fallback_active, \* DatabaseManager.sqlite_fallback_active
    connection_retry_count, \* DatabaseManager.connection_retry_count
    probe_due,              \* time.time() - last_mysql_check >= mysql_check_interval
    sync_status,            \* DatabaseSyncManager.sync_status
    pc,                     \* per thread: position inside synchronize_databases
    crud,                   \* the CRUD caller: position inside a CRUD function
    last_run,               \* history: what the latest session did, NoRun after a CRUD call
    stop_sync,              \* DatabaseSyncManager.stop_sync
    loop                    \* the for loop of a session: pending_records, position, counters

arbiter == <<current_db_type, mysql_available, sqlite_fallback_active,
            connection_retry_count, probe_due>>
stores == <<mysql_db, sqlite_db, mysql_seq, sqlite_seq, sqlite_users>>
engine == <<stop_sync, loop>>
vars == <<mysqlUp, mysql_db, sqlite_db, mysql_seq, sqlite_seq, sqlite_users, SyncTracking,
          ConflictResolution, current_db_type, mysql_available,
          sqlite_fallback_active, connection_retry_count, probe_due, sync_status,
          pc, crud, last_run, stop_sync, loop>>

\* ------------------------------------------------------------ pure helpers
\* json.dumps(data, sort_keys=True): the keys of the modelled columns, sorted.
KeyOrder == <<"created_at", "member_id", "name", "status">>

\* json.dumps raises TypeError on a datetime, date or Decimal value.
json_dumps(data) ==
    IF data # NoRow /\ "created_at" \in DOMAIN data /\ data.created_at = "datetime"
    THEN [result |-> "raise"]
    ELSE LET keys == SelectSeq(KeyOrder, LAMBDA k : k \in DOMAIN data)
         IN  [result |-> "none",
              text |-> [i \in 1..Len(keys) |-> <<keys[i], data[keys[i]]>>]]

\* DatabaseSyncManager._calculate_data_hash
_calculate_data_hash(data) == json_dumps(data)

\* The dict update_member and delete_member hand to track_change: it leaves
\* out the columns update_member does not write.
update_member_data(member_id, name) == [member_id |-> member_id, name |-> name]

\* The dict create_member hands to track_change (new_values).
create_member_data(member_id, name) ==
    [member_id |-> member_id, name |-> name, status |-> 0]   \* 0: 'active'

\* The Python type SELECT * returns for created_at from each store.
ColumnType(conn) == IF conn = "mysql" THEN "datetime" ELSE "TEXT"

Row(member_id, name, status, conn) ==
    [member_id |-> member_id, name |-> name, status |-> status,
     created_at |-> ColumnType(conn)]

IdleCrud == [pc |-> "idle"]

\* -------------------------------------------------------------------- Init
\* The state once DatabaseManager() (line 4820) is constructed: the sync
\* manager exists, the monitor thread is started and the constructor's own
\* _check_mysql_availability() has probed the server, which was up or down.
Init ==
    /\ mysqlUp \in BOOLEAN
    /\ mysql_db = [i \in RecIds |-> NoRow]
    /\ sqlite_db = [i \in RecIds |-> NoRow]
    /\ mysql_seq = 0
    /\ sqlite_seq = 0
    /\ sqlite_users = {}
    /\ SyncTracking = <<>>
    /\ ConflictResolution = <<>>
    /\ current_db_type = "none"
    /\ mysql_available = mysqlUp
    /\ sqlite_fallback_active = FALSE
    /\ connection_retry_count = 0
    /\ probe_due = FALSE
    /\ sync_status = "idle"
    /\ pc = [t \in Threads |-> "idle"]
    /\ crud = IdleCrud
    /\ last_run = NoRun
    /\ stop_sync = FALSE
    /\ loop = NoLoop

\* ------------------------------------------------------------- environment
MysqlGoesDown ==
    /\ mysqlUp
    /\ mysqlUp' = FALSE
    /\ UNCHANGED <<engine, stores, SyncTracking, ConflictResolution, arbiter,
                   sync_status, pc, crud, last_run>>

MysqlComesUp ==
    /\ ~mysqlUp
    /\ mysqlUp' = TRUE
    /\ UNCHANGED <<engine, stores, SyncTracking, ConflictResolution, arbiter,
                   sync_status, pc, crud, last_run>>

\* mysql_check_interval seconds have passed since last_mysql_check.
CheckIntervalElapses ==
    /\ ~probe_due
    /\ probe_due' = TRUE
    /\ UNCHANGED <<engine, mysqlUp, stores, SyncTracking, ConflictResolution,
                   current_db_type, mysql_available, sqlite_fallback_active,
                   connection_retry_count, sync_status, pc, crud, last_run>>

\* ------------------------------------------------------ connection arbiter
\* DatabaseManager._check_mysql_availability: the values it leaves in
\* mysql_available, sqlite_fallback_active and connection_retry_count, and
\* whether it started the edge-triggered sync thread
\* (_trigger_sync_from_fallback).  due is the outcome of the test of line
\* 4519: the rate-limit window has passed.
CheckMysqlAvailability(due) ==
    IF ~due
    THEN [mysql_available |-> mysql_available,
          sqlite_fallback_active |-> sqlite_fallback_active,
          connection_retry_count |-> connection_retry_count,
          trigger |-> FALSE]
    ELSE IF ~MYSQL_AVAILABLE
    THEN [mysql_available |-> FALSE,
          sqlite_fallback_active |-> sqlite_fallback_active,
          connection_retry_count |-> connection_retry_count,
          trigger |-> FALSE]
    ELSE IF mysqlUp
    THEN [mysql_available |-> TRUE,
          sqlite_fallback_active |-> FALSE,
          connection_retry_count |-> 0,
          trigger |-> sqlite_fallback_active /\ ~mysql_available]
    ELSE [mysql_available |-> FALSE,
          sqlite_fallback_active |->
              IF mysql_available THEN TRUE ELSE sqlite_fallback_active,
          connection_retry_count |-> connection_retry_count,
          trigger |-> FALSE]

\* _check_mysql_availability as get_connection calls it: the probe is due when
\* mysql_check_interval seconds have passed since last_mysql_check.
_check_mysql_availability == CheckMysqlAvailability(probe_due)

\* The store get_connection returns a connection to: MySQL when the flag
\* mysql_available is set and the connection attempt succeeds, SQLite when the
\* flag is clear or the attempt raises.
ConnectedStore(p) ==
    IF p.mysql_available /\ mysqlUp THEN "mysql" ELSE "sqlite"

\* _get_mysql_connection clears sqlite_fallback_active; the except branch of
\* get_connection and _get_sqlite_connection set it.
FallbackAfterConnect(p) ==
    IF ConnectedStore(p) = "mysql" THEN FALSE
    ELSE IF p.mysql_available THEN TRUE
    ELSE IF MYSQL_AVAILABLE /\ ~p.sqlite_fallback_active THEN TRUE
    ELSE p.sqlite_fallback_active

\* _trigger_sync_from_fallback: a new thread whose target is
\* synchronize_databases.  One such thread is modelled.
_trigger_sync_from_fallback(p) ==
    IF p.trigger
    THEN /\ pc["edge"] = "idle"
         /\ pc' = [pc EXCEPT !["edge"] = "start"]
    ELSE pc' = pc

\* get_connection which waits while a session is running.
get_connection_waits ==
    LET p == _check_mysql_availability
    IN  /\ sync_status # "syncing"
        /\ _trigger_sync_from_fallback(p)
        /\ probe_due' = FALSE
        /\ mysql_available' = p.mysql_available
        /\ current_db_type' = ConnectedStore(p)
        /\ sqlite_fallback_active' = FallbackAfterConnect(p)
        /\ connection_retry_count' = p.connection_retry_count

\* DatabaseManager.get_connection, as called by connect_db().
get_connection ==
    LET p == _check_mysql_availability
    IN  /\ _trigger_sync_from_fallback(p)
        /\ probe_due' = FALSE
        /\ mysql_available' = p.mysql_available
        /\ current_db_type' = ConnectedStore(p)
        /\ sqlite_fallback_active' = FallbackAfterConnect(p)
        /\ connection_retry_count' = p.connection_retry_count

\* --------------------------------------------------------- change tracker
\* DatabaseSyncManager.sync_tables
sync_tables == {"Members", "Contributions", "Loans", "Repayments", "Users", "Settings"}

\* DatabaseSyncManager.track_record_change with no test of the allow-list.
track_record_change_any(table_name, record_id, operation, data, now, sqlite_ok) ==
    IF _calculate_data_hash(data).result = "raise" \/ ~sqlite_ok
    THEN [result |-> "raise", tracking |-> SyncTracking]
    ELSE [result |-> "none",
          tracking |-> Append(SyncTracking,
                [table_name |-> table_name,
                 record_id |-> record_id,
                 operation |-> operation,
                 timestamp |-> now,
                 data_hash |-> _calculate_data_hash(data).text,
                 sync_status |-> "pending",
                 primary_touched |-> FALSE])]

\* DatabaseSyncManager.track_record_change: the SyncTracking table afterwards,
\* or "raise" when hashing the data raises or when the SQLite file cannot be
\* opened or written (sqlite_ok is false: sqlite3.connect or the INSERT of
\* lines 3152-3166 raises).  primary_touched is a history field, not a
\* column: a CRUD write has reached the primary row of the record since this
\* row was added.
track_record_change(table_name, record_id, operation, data, now, sqlite_ok) ==
    IF table_name \notin sync_tables
    THEN [result |-> "none", tracking |-> SyncTracking]
    ELSE IF _calculate_data_hash(data).result = "raise" \/ ~sqlite_ok
    THEN [result |-> "raise", tracking |-> SyncTracking]
    ELSE [result |-> "none",
          tracking |-> Append(SyncTracking,
                [table_name |-> table_name,
                 record_id |-> record_id,
                 operation |-> operation,
                 timestamp |-> now,
                 data_hash |-> _calculate_data_hash(data).text,
                 sync_status |-> "pending",
                 primary_touched |-> FALSE])]

\* DatabaseManager.track_change with no except clause: what the tracker
\* raises reaches the caller.
track_change_reraise(table_name, record_id, operation, data, now, sqlite_ok) ==
    IF current_db_type = "sqlite"
    THEN LET r == track_record_change(table_name, record_id, operation, data,
                                      now, sqlite_ok)
         IN  [result |-> r.result, tracking |-> r.tracking, swallowed |-> FALSE]
    ELSE [result |-> "none", tracking |-> SyncTracking, swallowed |-> FALSE]

\* DatabaseManager.track_change: it logs and swallows what the tracker raises
\* (swallowed is history: the tracker raised).
track_change(table_name, record_id, operation, data, now, sqlite_ok) ==
    IF current_db_type = "sqlite"
    THEN LET r == track_record_change(table_name, record_id, operation, data,
                                      now, sqlite_ok)
         IN  [result |-> "none", tracking |-> r.tracking,
              swallowed |-> r.result = "raise"]
    ELSE [result |-> "none", tracking |-> SyncTracking, swallowed |-> FALSE]

\* History only: a CRUD write reached the primary row of record_id.
TouchPrimary(record_id) ==
    [i \in 1..Len(SyncTracking) |->
        IF SyncTracking[i].record_id = record_id
        THEN [SyncTracking[i] EXCEPT !.primary_touched = TRUE]
        ELSE SyncTracking[i]]

\* ------------------------------------------------------------------- CRUD
\* The write of a CRUD function on the store it is connected to.
WriteStore(conn, record_id, row) ==
    /\ mysql_db' = IF conn = "mysql" THEN [mysql_db EXCEPT ![record_id] = row] ELSE mysql_db
    /\ sqlite_db' = IF conn = "sqlite" THEN [sqlite_db EXCEPT ![record_id] = row] ELSE sqlite_db
    /\ SyncTracking' = IF conn = "mysql" THEN TouchPrimary(record_id) ELSE SyncTracking

StoreOf(conn) == IF conn = "mysql" THEN mysql_db ELSE sqlite_db

\* cursor.lastrowid of an INSERT into Members: member_id is AUTO_INCREMENT in
\* MySQL and AUTOINCREMENT in SQLite, so a key is never handed out twice.
NextRowId(conn) == (IF conn = "mysql" THEN mysql_seq ELSE sqlite_seq) + 1

\* What a CRUD function carries from its write to its tracking call.  wrote
\* and before are history: the function changed a row of the secondary store
\* (fallback is active whenever SQLite is the connected store), and the number
\* of SyncTracking rows when it was called; conn, history too, is the store
\* its connection was to.
CrudFrame(at, operation, record_id, data, wrote, conn) ==
    [pc |-> at, operation |-> operation, record_id |-> record_id, data |-> data,
     wrote |-> wrote, before |-> Len(SyncTracking), conn |-> conn]

\* create_member up to conn.close(): connect_db(), INSERT, lastrowid.  Its
\* audit call (log_action) raises AttributeError, which it catches, so no
\* second connection is taken before the tracking call.
create_member(name) ==
    /\ crud.pc = "idle"
    /\ Len(SyncTracking) < MaxTrack
    /\ get_connection
    /\ LET conn == current_db_type'
           member_id == NextRowId(conn)
       IN  /\ member_id \in RecIds
           /\ WriteStore(conn, member_id, Row(member_id, name, 0, conn))
           /\ mysql_seq' = IF conn = "mysql" THEN member_id ELSE mysql_seq
           /\ sqlite_seq' = IF conn = "sqlite" THEN member_id ELSE sqlite_seq
           /\ crud' = CrudFrame("track", "INSERT", member_id,
                                create_member_data(member_id, name), conn = "sqlite",
                                conn)
    /\ last_run' = NoRun
    /\ UNCHANGED <<engine, mysqlUp, sqlite_users, ConflictResolution, sync_status>>

\* update_member up to conn.close(): connect_db(), SELECT, UPDATE (which
\* changes nothing when the row is absent from the connected store).
update_member(member_id, name) ==
    /\ crud.pc = "idle"
    /\ Len(SyncTracking) < MaxTrack
    /\ get_connection
    /\ LET conn == current_db_type'
           old == StoreOf(conn)[member_id]
       IN  /\ IF old = NoRow
              THEN UNCHANGED <<mysql_db, sqlite_db, SyncTracking>>
              ELSE WriteStore(conn, member_id, [old EXCEPT !.name = name])
           /\ crud' = CrudFrame("audit", "UPDATE", member_id,
                                update_member_data(member_id, name),
                                conn = "sqlite" /\ old # NoRow, conn)
    /\ last_run' = NoRun
    /\ UNCHANGED <<engine, mysqlUp, mysql_seq, sqlite_seq, sqlite_users, ConflictResolution, sync_status>>

\* delete_member up to conn.close().  Its statements use the '?' placeholder
\* only, which mysql.connector rejects: on a MySQL connection it raises before
\* any write.  On SQLite it deletes the row; the audit and tracking calls
\* follow only when the row existed.
delete_member(member_id) ==
    /\ crud.pc = "idle"
    /\ Len(SyncTracking) < MaxTrack
    /\ get_connection
    /\ LET conn == current_db_type'
           member_data == sqlite_db[member_id]
       IN  IF conn = "mysql" \/ member_data = NoRow
           THEN /\ crud' = IdleCrud
                /\ UNCHANGED <<mysql_db, sqlite_db, SyncTracking>>
           ELSE /\ WriteStore(conn, member_id, NoRow)
                /\ crud' = CrudFrame("audit", "DELETE", member_id,
                                     update_member_data(member_id, member_data.name), TRUE,
                                     conn)
    /\ last_run' = NoRun
    /\ UNCHANGED <<engine, mysqlUp, mysql_seq, sqlite_seq, sqlite_users, ConflictResolution, sync_status>>

\* create_user up to conn.close(): its statements use the '?' placeholder
\* only, so it raises on MySQL; DuplicateRecordError when the username exists.
\* Users is one of sync_tables, yet create_user goes from its INSERT to the
\* audit log and returns: it has no tracking call.
create_user(username) ==
    /\ crud.pc = "idle"
    /\ get_connection
    /\ LET conn == current_db_type'
       IN  IF conn = "mysql" \/ username \in sqlite_users
           THEN /\ crud' = IdleCrud
                /\ sqlite_users' = sqlite_users
           ELSE /\ sqlite_users' = sqlite_users \cup {username}
                /\ crud' = CrudFrame("audit", "USER", username, NoRow, TRUE, conn)
    /\ last_run' = NoRun
    /\ UNCHANGED <<engine, mysqlUp, mysql_db, sqlite_db, mysql_seq, sqlite_seq, SyncTracking,
                   ConflictResolution, sync_status>>

\* AuditManager.log_transaction: it takes its own connection with
\* connect_db(); whatever it raises it catches.  create_user returns
\* after it, the other functions go on to their tracking call.
log_transaction ==
    /\ crud.pc = "audit"
    /\ get_connection
    /\ crud' = IF crud.operation = "USER" THEN IdleCrud ELSE [crud EXCEPT !.pc = "track"]
    /\ last_run' = NoRun
    /\ UNCHANGED <<engine, mysqlUp, stores, SyncTracking, ConflictResolution, sync_status>>

\* The tail of a CRUD function: if db_manager.current_db_type == 'sqlite':
\* db_manager.track_change(...), with now the reading of datetime.now() and
\* sqlite_ok telling whether the tracker could write to the SQLite file.  An
\* exception that reached the function would end it (raised); last_run
\* records (history) a tracking failure that was swallowed.
TrackChange ==
    /\ crud.pc = "track"
    /\ \E now \in Times, sqlite_ok \in BOOLEAN :
          /\ current_db_type # "sqlite" => (now = 0 /\ sqlite_ok)
          /\ LET r == track_change("Members", crud.record_id, crud.operation,
                                    crud.data, now, sqlite_ok)
             IN  /\ SyncTracking' = r.tracking
                 /\ crud' = IF r.result = "raise"
                             THEN [pc |-> "idle", raised |-> TRUE]
                             ELSE IdleCrud
                 /\ last_run' = IF r.swallowed
                                 THEN [ran |-> FALSE, call |-> "track_change"]
                                 ELSE NoRun
    /\ UNCHANGED <<engine, mysqlUp, stores, ConflictResolution, arbiter, sync_status, pc>>

\* store_dividend_calculation: connect_db(), INSERT OR REPLACE into
\* DividendCalculations (a table this model does not represent), then the
\* tracking call for 'DividendCalculations', which is not one of sync_tables.
\* Its MySQL branch uses the '?' placeholder, which mysql.connector rejects:
\* on a MySQL connection it raises before the write.  record_id stands for
\* cursor.lastrowid.
store_dividend_calculation(record_id) ==
    /\ crud.pc = "idle"
    /\ Len(SyncTracking) < MaxTrack
    /\ get_connection
    /\ IF current_db_type' = "mysql"
       THEN /\ SyncTracking' = SyncTracking
            /\ last_run' = NoRun
       ELSE /\ \E now \in Times :
                 \E sqlite_ok \in BOOLEAN :
                    \* both mode tests (line 616 and track_change) pass here
                    SyncTracking' =
                       track_record_change("DividendCalculations", record_id,
                          "INSERT", [member_id |-> record_id], now,
                          sqlite_ok).tracking
            /\ last_run' = [ran |-> FALSE, call |-> "store_dividend_calculation"]
    /\ UNCHANGED <<engine, mysqlUp, stores, ConflictResolution, sync_status, crud>>

\* ------------------------------------------------------------ sync engine
\* The values of the enum SyncStatus; there is no member for 'pending'.
SyncStatusValues == {"idle", "syncing", "conflict", "error", "completed"}

\* SyncStatus with a member for every value it is given.
SyncStatus_any(value) == [result |-> "none", value |-> value]

\* SyncStatus(value): the enum member with that value, ValueError when there
\* is none.
SyncStatus(value) ==
    IF value \in SyncStatusValues
    THEN [result |-> "none", value |-> value]
    ELSE [result |-> "raise"]

\* The query of _get_pending_sync_records: WHERE sync_status = 'pending' ORDER
\* BY timestamp ASC, as sync_ids.  SQLite scans SyncTracking in sync_id order
\* and sorts stably, so rows with equal timestamps come out in sync_id order.
PendingRows(tracking) ==
    LET P == {i \in 1..Len(tracking) : tracking[i].sync_status = "pending"}
        Before(i, j) ==
            \/ tracking[i].timestamp < tracking[j].timestamp
            \/ tracking[i].timestamp = tracking[j].timestamp /\ i < j
    IN  [k \in 1..Cardinality(P) |->
            CHOOSE i \in P : Cardinality({j \in P : Before(j, i)}) = k - 1]

\* _get_pending_sync_records: every fetched row is turned into a SyncRecord
\* with sync_status = SyncStatus(row[5]).
_get_pending_sync_records(tracking) ==
    LET rows == PendingRows(tracking)
    IN  IF \E k \in 1..Len(rows) :
               SyncStatus(tracking[rows[k]].sync_status).result = "raise"
        THEN [result |-> "raise", records |-> <<>>]
        ELSE [result |-> "none", records |-> rows]

\* _insert_record_to_mysql: data.keys() raises when data is None; the row is
\* stored in MySQL's column types.
_insert_record_to_mysql(data) ==
    IF data = NoRow THEN [result |-> "raise", row |-> NoRow]
    ELSE [result |-> "none", row |-> [data EXCEPT !.created_at = ColumnType("mysql")]]

\* _update_record_in_mysql: SET every column but the primary key.
_update_record_in_mysql(mysql_data, data) ==
    IF data = NoRow THEN [result |-> "raise", row |-> mysql_data]
    ELSE [result |-> "none",
          row |-> [mysql_data EXCEPT !.name = data.name, !.status = data.status]]

\* _store_conflict_record: json.dumps of both snapshots, then the INSERT into
\* ConflictResolution (resolved defaults to 0).
_store_conflict_record(conflicts, conflict) ==
    IF \/ json_dumps(conflict.sqlite_data).result = "raise"
       \/ json_dumps(conflict.mysql_data).result = "raise"
    THEN [result |-> "raise", conflicts |-> conflicts]
    ELSE [result |-> "conflict", conflicts |-> Append(conflicts, conflict)]

\* _create_conflict_record: the ConflictRecord, stored before it is returned.
_create_conflict_record(conflicts, table_name, record_id, sqlite_data, mysql_data, now) ==
    _store_conflict_record(conflicts,
        [table_name |-> table_name,
         record_id |-> record_id,
         sqlite_data |-> sqlite_data,
         mysql_data |-> mysql_data,
         sqlite_timestamp |-> now,
         mysql_timestamp |-> now,
         resolution_strategy |-> "manual",
         resolved |-> FALSE,
         resolved_at |-> "NULL"])

\* The outcome of a handler: "none" (no conflict), "conflict" or "raise", the
\* primary row it leaves and the ConflictResolution table it leaves.
Outcome(result, row, conflicts) ==
    [result |-> result, row |-> row, conflicts |-> conflicts]

\* _handle_insert_sync which inserts or overwrites before it looks for a
\* conflict.
_handle_insert_sync_overwrite(conflicts, record, sqlite_data, mysql_data, now) ==
    IF mysql_data = NoRow
    THEN LET w == _insert_record_to_mysql(sqlite_data)
         IN  Outcome(w.result, w.row, conflicts)
    ELSE LET c == _create_conflict_record(conflicts, record.table_name,
                                          record.record_id, sqlite_data, mysql_data, now)
         IN  Outcome(c.result, _update_record_in_mysql(mysql_data, sqlite_data).row,
                     c.conflicts)

\* _handle_insert_sync
_handle_insert_sync(conflicts, record, sqlite_data, mysql_data, now) ==
    IF mysql_data = NoRow
    THEN LET w == _insert_record_to_mysql(sqlite_data)
         IN  Outcome(w.result, w.row, conflicts)
    ELSE LET c == _create_conflict_record(conflicts, record.table_name,
                                          record.record_id, sqlite_data, mysql_data, now)
         IN  Outcome(c.result, mysql_data, c.conflicts)

\* _handle_update_sync
_handle_update_sync(conflicts, record, sqlite_data, mysql_data, now) ==
    IF mysql_data = NoRow
    THEN LET w == _insert_record_to_mysql(sqlite_data)
         IN  Outcome(w.result, w.row, conflicts)
    ELSE LET mysql_hash == _calculate_data_hash(mysql_data)
         IN  IF mysql_hash.result = "raise"
             THEN Outcome("raise", mysql_data, conflicts)
             ELSE IF mysql_hash.text # record.data_hash
             THEN LET c == _create_conflict_record(conflicts, record.table_name,
                                  record.record_id, sqlite_data, mysql_data, now)
                  IN  Outcome(c.result, mysql_data, c.conflicts)
             ELSE LET w == _update_record_in_mysql(mysql_data, sqlite_data)
                  IN  Outcome(w.result, w.row, conflicts)

\* _delete_record_from_mysql: DELETE FROM table WHERE pk = record_id; the row
\* it leaves in the primary store.
_delete_record_from_mysql(mysql_data) == NoRow

\* _handle_delete_sync
_handle_delete_sync(conflicts, record, mysql_data) ==
    IF mysql_data # NoRow
    THEN Outcome("none", _delete_record_from_mysql(mysql_data), conflicts)
    ELSE Outcome("none", mysql_data, conflicts)

\* _sync_record
_sync_record(conflicts, record, sqlite_data, mysql_data, now) ==
    IF record.operation = "INSERT"
    THEN _handle_insert_sync(conflicts, record, sqlite_data, mysql_data, now)
    ELSE IF record.operation = "UPDATE"
    THEN _handle_update_sync(conflicts, record, sqlite_data, mysql_data, now)
    ELSE IF record.operation = "DELETE"
    THEN _handle_delete_sync(conflicts, record, mysql_data)
    ELSE Outcome("none", mysql_data, conflicts)

\* _mark_record_synced as a DELETE of the rows it would update.
_mark_record_synced_delete(tracking, table_name, record_id, operation) ==
    SelectSeq(tracking, LAMBDA row :
        ~(/\ row.table_name = table_name
          /\ row.record_id = record_id
          /\ row.operation = operation))

\* _mark_record_synced: UPDATE SyncTracking SET sync_status = 'synced' WHERE
\* table_name = ? AND record_id = ? AND operation = ?
_mark_record_synced(tracking, table_name, record_id, operation) ==
    [i \in 1..Len(tracking) |->
        IF /\ tracking[i].table_name = table_name
           /\ tracking[i].record_id = record_id
           /\ tracking[i].operation = operation
        THEN [tracking[i] EXCEPT !.sync_status = "synced"]
        ELSE tracking[i]]

\* What the for loop of synchronize_databases (lines 2837-2849) works on: the
\* primary store, the two SQLite tables, the locals conflicts_found and
\* records_synced, and (history) the sync_ids handed to _sync_record so far
\* and those of them whose processing raised into the except of line 2847.
LoopState(mysql, seq, tracking, conflicts) ==
    [mysql |-> mysql, seq |-> seq, tracking |-> tracking, conflicts |-> conflicts,
     conflicts_found |-> 0, records_synced |-> 0, processed |-> <<>>,
     failed |-> <<>>]

\* One iteration of the for loop, for the pending record with sync_id sid.
\* An explicit key moves MySQL's AUTO_INCREMENT past it.
SyncIteration(st, sid, now) ==
    LET record == st.tracking[sid]
        sqlite_data == sqlite_db[record.record_id]
        mysql_data == st.mysql[record.record_id]
        res == _sync_record(st.conflicts, record, sqlite_data, mysql_data, now)
        \* whatever the handler wrote to the primary row before it returned
        \* or raised is written
        seen == [st EXCEPT !.processed = Append(@, sid),
                           !.mysql = [@ EXCEPT ![record.record_id] = res.row]]
    IN  IF res.result = "conflict"
        THEN [seen EXCEPT !.conflicts = res.conflicts,
                          !.conflicts_found = @ + 1]
        ELSE IF res.result = "none"
        THEN [seen EXCEPT
                !.mysql = [@ EXCEPT ![record.record_id] = res.row],
                !.seq = IF res.row # NoRow /\ record.record_id > @
                        THEN record.record_id ELSE @,
                !.records_synced = @ + 1,
                !.tracking = _mark_record_synced(@, record.table_name,
                                                 record.record_id, record.operation)]
        ELSE [seen EXCEPT !.failed = Append(@, sid)]

\* The whole for loop over pending_records, from position i on.
RECURSIVE SyncLoop(_, _, _, _)
SyncLoop(st, pending_records, i, now) ==
    IF i > Len(pending_records) THEN st
    ELSE SyncLoop(SyncIteration(st, pending_records[i], now), pending_records, i + 1, now)

\* synchronize_databases from the statement after sync_status = SYNCING (line
\* 2816) to its return: the pending records are fetched, both connections are
\* opened, the loop runs.  Whatever is raised outside the loop ends the
\* session with sync_status = ERROR.
SessionBody(now) ==
    LET start == LoopState(mysql_db, mysql_seq, SyncTracking, ConflictResolution)
        fetched == _get_pending_sync_records(SyncTracking)
        st == SyncLoop(start, fetched.records, 1, now)
    IN  IF fetched.result = "raise" THEN [state |-> start, status |-> "error"]
        ELSE IF fetched.records = <<>> THEN [state |-> start, status |-> "completed"]
        ELSE IF ~mysqlUp THEN [state |-> start, status |-> "error"]
        ELSE [state |-> st,
              status |-> IF st.conflicts_found > 0 THEN "conflict" ELSE "completed"]

\* The session's effect on the stores, on sync_status and on the history.
SessionEffect(now) ==
    LET end == SessionBody(now)
    IN  /\ mysql_db' = end.state.mysql
        /\ mysql_seq' = end.state.seq
        /\ SyncTracking' = end.state.tracking
        /\ ConflictResolution' = end.state.conflicts
        /\ sync_status' = end.status
        /\ last_run' = [ran |-> TRUE,
                        again |-> last_run.ran,
                        processed |-> end.state.processed,
                        failed |-> end.state.failed,
                        conflicts_found |-> end.state.conflicts_found,
                        records_synced |-> end.state.records_synced]

\* synchronize_databases run from its first line to its return, with nothing
\* else running in between.
synchronize_databases ==
    IF sync_status = "syncing" \/ ~MYSQL_AVAILABLE
    THEN UNCHANGED <<mysql_db, mysql_seq, SyncTracking, ConflictResolution,
                     sync_status, last_run>>
    ELSE \E now \in Times : SessionEffect(now)

\* DatabaseSyncManager.is_mysql_available: a connection attempt of its own.
is_mysql_available == MYSQL_AVAILABLE /\ mysqlUp

\* The test of _sync_monitor_loop (line 2792) that lets an iteration run a session.
MonitorTest == is_mysql_available /\ sync_status = "idle"

\* _sync_monitor_loop: one iteration whose test passes, with the session it runs.
SyncMonitorLoop ==
    /\ MonitorTest
    /\ synchronize_databases
    /\ UNCHANGED <<engine, mysqlUp, sqlite_db, sqlite_seq, sqlite_users, arbiter, pc, crud>>

\* App.force_sync: the operator's button runs synchronize_databases on the
\* user-interface thread, the thread the CRUD functions run on.
ForceSync ==
    /\ crud.pc = "idle"
    /\ synchronize_databases
    /\ UNCHANGED <<engine, mysqlUp, sqlite_db, sqlite_seq, sqlite_users, arbiter, pc, crud>>

\* The thread started by _trigger_sync_from_fallback runs synchronize_databases.
EdgeSync ==
    /\ pc["edge"] = "start"
    /\ synchronize_databases
    /\ pc' = [pc EXCEPT !["edge"] = "idle"]
    /\ UNCHANGED <<engine, mysqlUp, sqlite_db, sqlite_seq, sqlite_users, arbiter, crud>>

\* ------------------------------- sync engine, the threads statement by statement
\* A thread is at "start" (synchronize_databases called, line 2807 not yet
\* run), "entered" (the tests of lines 2807-2813 passed, line 2816 not yet
\* run) or "syncing" (it has set sync_status = SYNCING and runs the session).

\* _sync_monitor_loop: its test passes and it calls synchronize_databases.
MonitorCall ==
    /\ pc["monitor"] = "idle"
    /\ MonitorTest
    /\ pc' = [pc EXCEPT !["monitor"] = "start"]
    /\ UNCHANGED <<engine, mysqlUp, stores, SyncTracking, ConflictResolution,
                   arbiter, sync_status, crud, last_run>>

\* App.force_sync calls synchronize_databases.
ForceSyncCall ==
    /\ pc["manual"] = "idle"
    /\ crud.pc = "idle"
    /\ pc' = [pc EXCEPT !["manual"] = "start"]
    /\ UNCHANGED <<engine, mysqlUp, stores, SyncTracking, ConflictResolution,
                   arbiter, sync_status, crud, last_run>>

\* Line 2807: a session is in progress, return False.
SyncAlreadyInProgress(t) ==
    /\ pc[t] = "start"
    /\ sync_status = "syncing"
    /\ pc' = [pc EXCEPT ![t] = "idle"]
    /\ UNCHANGED <<engine, mysqlUp, stores, SyncTracking, ConflictResolution,
                   arbiter, sync_status, crud, last_run>>

\* Lines 2807-2815: the tests passed; the assignment of line 2816 has not run.
SyncEnter(t) ==
    /\ pc[t] = "start"
    /\ sync_status # "syncing"
    /\ MYSQL_AVAILABLE
    /\ pc' = [pc EXCEPT ![t] = "entered"]
    /\ UNCHANGED <<engine, mysqlUp, stores, SyncTracking, ConflictResolution,
                   arbiter, sync_status, crud, last_run>>

\* Line 2816: self.sync_status = SyncStatus.SYNCING
SyncBegin(t) ==
    /\ pc[t] = "entered"
    /\ sync_status' = "syncing"
    /\ pc' = [pc EXCEPT ![t] = "syncing"]
    /\ UNCHANGED <<engine, mysqlUp, stores, SyncTracking, ConflictResolution,
                   arbiter, crud, last_run>>

\* Lines 2818-2869: the rest of the session.
SyncRun(t) ==
    /\ pc[t] = "syncing"
    /\ \E now \in Times : SessionEffect(now)
    /\ pc' = [pc EXCEPT ![t] = "idle"]
    /\ UNCHANGED <<engine, mysqlUp, sqlite_db, sqlite_seq, sqlite_users, arbiter, crud>>

\* ----------------------------------- sync engine, the for loop record by record
\* The for loop of synchronize_databases (lines 2837-2849) one iteration at a
\* time, exercised in LoopSpec.  The loop is entered with the rows the query
\* of _get_pending_sync_records selects; the conversion of those rows into
\* SyncRecord objects, which raises on 'pending', is not applied here.

\* Lines 2816-2835: sync_status = SYNCING, the pending rows, both connections.
\* entered_stopped is history: stop had been requested before the loop began.
LoopEnter ==
    /\ ~loop.running
    /\ sync_status # "syncing"
    /\ MYSQL_AVAILABLE /\ mysqlUp
    /\ PendingRows(SyncTracking) # <<>>
    /\ sync_status' = "syncing"
    /\ loop' = [running |-> TRUE, pending_records |-> PendingRows(SyncTracking),
                i |-> 1, conflicts_found |-> 0, records_synced |-> 0,
                conflicts |-> loop.conflicts, entered_stopped |-> stop_sync]
    /\ last_run' = NoRun
    /\ UNCHANGED <<mysqlUp, stores, SyncTracking, ConflictResolution, arbiter,
                   pc, crud, stop_sync>>

\* Lines 2837-2849: the iteration for pending_records[i].  The loop header
\* reads nothing but the list.  With the server gone every statement on
\* mysql_conn raises into the except of line 2847.  last_run records
\* (history) the record, what _sync_record did and stop_sync at that moment.
LoopIterate ==
    /\ loop.running
    /\ loop.i <= Len(loop.pending_records)
    /\ \E now \in Times :
          LET sid == loop.pending_records[loop.i]
              record == SyncTracking[sid]
              st == [LoopState(mysql_db, mysql_seq, SyncTracking, ConflictResolution)
                        EXCEPT !.conflicts_found = loop.conflicts_found,
                               !.records_synced = loop.records_synced]
              res == _sync_record(ConflictResolution, record,
                                  sqlite_db[record.record_id],
                                  mysql_db[record.record_id], now)
              end == IF mysqlUp THEN SyncIteration(st, sid, now) ELSE st
          IN  /\ mysql_db' = end.mysql
              /\ mysql_seq' = end.seq
              /\ SyncTracking' = end.tracking
              /\ ConflictResolution' = end.conflicts
              /\ loop' = [loop EXCEPT !.i = @ + 1,
                                      !.conflicts_found = end.conflicts_found,
                                      !.conflicts = @ + end.conflicts_found
                                                      - loop.conflicts_found,
                                      !.records_synced = end.records_synced]
              /\ last_run' = [ran |-> FALSE, call |-> "_sync_record",
                              sync_id |-> sid,
                              result |-> IF mysqlUp THEN res.result ELSE "raise",
                              stop_sync |-> stop_sync]
    /\ UNCHANGED <<mysqlUp, sqlite_db, sqlite_seq, sqlite_users, arbiter,
                   sync_status, pc, crud, stop_sync>>

\* Lines 2851-2862: the loop is over, the session's status is stored.
LoopExit ==
    /\ loop.running
    /\ loop.i > Len(loop.pending_records)
    /\ sync_status' = IF loop.conflicts_found > 0 THEN "conflict" ELSE "completed"
    /\ loop' = [running |-> FALSE, conflicts |-> loop.conflicts]
    /\ last_run' = NoRun
    /\ UNCHANGED <<mysqlUp, stores, SyncTracking, ConflictResolution, arbiter,
                   pc, crud, stop_sync>>

\* DatabaseSyncManager.stop_sync_monitoring: self.stop_sync = True, then a
\* join of the monitor thread that gives up after 5 seconds.
stop_sync_monitoring ==
    /\ ~stop_sync
    /\ stop_sync' = TRUE
    /\ UNCHANGED <<mysqlUp, stores, SyncTracking, ConflictResolution, arbiter,
                   sync_status, pc, crud, last_run, loop>>

\* DatabaseSyncManager.get_sync_status: pending_records is the length of what
\* _get_pending_sync_records returns, conflicts the length of the in-memory
\* list self.conflicts, to which only line 2842 appends.
get_sync_status ==
    LET fetched == _get_pending_sync_records(SyncTracking)
    IN  IF fetched.result = "raise"
        THEN [result |-> "raise"]
        ELSE [result |-> "none",
              status |-> sync_status,
              mysql_available |-> is_mysql_available,
              pending_records |-> Len(fetched.records),
              conflicts |-> loop.conflicts]

\* App.refresh_sync_status: the status panel asks for get_sync_status; what
\* it raises is caught by the panel.
refresh_sync_status ==
    /\ crud.pc = "idle"
    /\ last_run' = [ran |-> FALSE, call |-> "get_sync_status",
                    returned |-> get_sync_status]
    /\ UNCHANGED <<engine, mysqlUp, stores, SyncTracking, ConflictResolution, arbiter,
                   sync_status, pc, crud>>

\* ---------------------------------------------- arbiter, called directly
\* The entry points below have no caller among the CRUD functions modelled
\* above; they are exercised in ArbiterSpec.  last_run records (history)
\* the call and what it returned.

\* DatabaseManager.force_mysql_reconnect with last_mysql_check left as it is.
force_mysql_reconnect_no_reset ==
    LET p == _check_mysql_availability
    IN  /\ _trigger_sync_from_fallback(p)
        /\ probe_due' = FALSE
        /\ mysql_available' = p.mysql_available
        /\ sqlite_fallback_active' = p.sqlite_fallback_active
        /\ connection_retry_count' = 0
        /\ last_run' = [ran |-> FALSE, call |-> "force_mysql_reconnect",
                        due |-> probe_due, returned |-> p.mysql_available]
        /\ UNCHANGED <<engine, mysqlUp, stores, SyncTracking, ConflictResolution,
                       current_db_type, sync_status, crud>>

\* DatabaseManager.force_mysql_reconnect: last_mysql_check = 0, so the test
\* of line 4519 passes and _check_mysql_availability probes, whatever the time
\* of the previous probe; the probe sets last_mysql_check to the current time.
force_mysql_reconnect ==
    LET p == CheckMysqlAvailability(TRUE)
    IN  /\ _trigger_sync_from_fallback(p)
        /\ probe_due' = FALSE
        /\ mysql_available' = p.mysql_available
        /\ sqlite_fallback_active' = p.sqlite_fallback_active
        /\ connection_retry_count' = 0
        /\ last_run' = [ran |-> FALSE, call |-> "force_mysql_reconnect",
                        due |-> probe_due, returned |-> p.mysql_available]
        /\ UNCHANGED <<engine, mysqlUp, stores, SyncTracking, ConflictResolution,
                       current_db_type, sync_status, crud>>

\* connect_db(), that is get_connection, where opening the SQLite file
\* succeeds (sqlite_ok) or raises sqlite3.Error.  MySQL is tried only when
\* the flag mysql_available is set.  When the SQLite file cannot be opened
\* _get_sqlite_connection raises; the except branch of get_connection sets
\* sqlite_fallback_active and calls it again, and that call raises to the
\* caller.
connect_db(sqlite_ok) ==
    LET p == _check_mysql_availability
    IN  IF ConnectedStore(p) = "mysql" \/ sqlite_ok
        THEN /\ get_connection
             /\ last_run' = [ran |-> FALSE, call |-> "get_connection",
                             returned |-> ConnectedStore(p)]
             /\ UNCHANGED <<engine, mysqlUp, stores, SyncTracking, ConflictResolution,
                            sync_status, crud>>
        ELSE /\ _trigger_sync_from_fallback(p)
             /\ probe_due' = FALSE
             /\ mysql_available' = p.mysql_available
             /\ connection_retry_count' = p.connection_retry_count
             /\ sqlite_fallback_active' = TRUE
             /\ last_run' = [ran |-> FALSE, call |-> "get_connection",
                             returned |-> "raise"]
             /\ UNCHANGED <<engine, mysqlUp, stores, SyncTracking, ConflictResolution,
                            current_db_type, sync_status, crud>>

\* -------------------------------------------------------- conflict resolver
\* get_conflicts, resolve_conflict and manual_sync are exercised in
\* ResolverSpec.  A conflict_id is the position of the row in
\* ConflictResolution: ids are AUTOINCREMENT and no row is ever deleted.

\* enum ConflictResolution
ConflictResolutionValues == {"mysql_wins", "sqlite_wins", "manual", "latest_timestamp"}

\* json.loads of the text json_dumps writes.
json_loads(text) ==
    [k \in {text[i][1] : i \in 1..Len(text)} |->
        text[CHOOSE i \in 1..Len(text) : text[i][1] = k][2]]

\* The ConflictRecord get_conflicts builds from a row it selected.
ConflictRecord(row) ==
    [table_name |-> row.table_name,
     record_id |-> row.record_id,
     sqlite_data |-> json_loads(json_dumps(row.sqlite_data).text),
     mysql_data |-> json_loads(json_dumps(row.mysql_data).text),
     sqlite_timestamp |-> row.sqlite_timestamp,
     mysql_timestamp |-> row.mysql_timestamp,
     resolution_strategy |-> row.resolution_strategy]

\* get_conflicts with no WHERE clause.
get_conflicts_all ==
    [i \in 1..Len(ConflictResolution) |-> ConflictRecord(ConflictResolution[i])]

\* DatabaseSyncManager.get_conflicts: SELECT ... WHERE resolved = 0 ORDER BY
\* created_at ASC.
get_conflicts ==
    LET rows == SelectSeq(ConflictResolution, LAMBDA row : ~row.resolved)
    IN  [i \in 1..Len(rows) |-> ConflictRecord(rows[i])]

\* App.view_conflicts: the list it shows (history, in last_run).
view_conflicts ==
    /\ crud.pc = "idle"
    /\ last_run' = [ran |-> FALSE, call |-> "get_conflicts", returned |-> get_conflicts]
    /\ UNCHANGED <<engine, mysqlUp, stores, SyncTracking, ConflictResolution, arbiter,
                   sync_status, pc, crud>>

\* resolve_conflict which leaves resolution_strategy as it was.
resolve_conflict_keeps_strategy(conflict_id, resolution) ==
    /\ \E now \in Times :
          ConflictResolution' =
             [i \in 1..Len(ConflictResolution) |->
                IF i = conflict_id
                THEN [ConflictResolution[i] EXCEPT !.resolved = TRUE,
                                                   !.resolved_at = now]
                ELSE ConflictResolution[i]]
    /\ last_run' = [ran |-> FALSE, call |-> "resolve_conflict",
                    conflict_id |-> conflict_id, resolution |-> resolution,
                    returned |-> conflict_id \in 1..Len(ConflictResolution)]
    /\ UNCHANGED <<engine, mysqlUp, stores, SyncTracking, arbiter, sync_status, pc, crud>>

\* DatabaseSyncManager.resolve_conflict: UPDATE ConflictResolution SET
\* resolved = 1, resolved_at = CURRENT_TIMESTAMP, resolution_strategy = ?
\* WHERE conflict_id = ?; it returns cursor.rowcount > 0.
resolve_conflict(conflict_id, resolution) ==
    /\ \E now \in Times :
          ConflictResolution' =
             [i \in 1..Len(ConflictResolution) |->
                IF i = conflict_id
                THEN [ConflictResolution[i] EXCEPT !.resolved = TRUE,
                                                   !.resolved_at = now,
                                                   !.resolution_strategy = resolution]
                ELSE ConflictResolution[i]]
    /\ last_run' = [ran |-> FALSE, call |-> "resolve_conflict",
                    conflict_id |-> conflict_id, resolution |-> resolution,
                    returned |-> conflict_id \in 1..Len(ConflictResolution)]
    /\ UNCHANGED <<engine, mysqlUp, stores, SyncTracking, arbiter, sync_status, pc, crud>>

\* DatabaseManager.manual_sync: a session when the arbiter's flag is set.
manual_sync ==
    /\ crud.pc = "idle"
    /\ IF mysql_available
       THEN synchronize_databases
       ELSE UNCHANGED <<mysql_db, mysql_seq, SyncTracking, ConflictResolution,
                        sync_status, last_run>>
    /\ UNCHANGED <<engine, mysqlUp, sqlite_db, sqlite_seq, sqlite_users, arbiter, pc, crud>>

\* A row of ConflictResolution as _create_conflict_record stores it.  The
\* table holds both snapshots as JSON text, in which created_at is a string;
\* mysql_timestamp is the second reading of the clock.
StoredConflict(record_id, sqlite_name, mysql_name, sqlite_timestamp, mysql_timestamp) ==
    LET stored == _create_conflict_record(<<>>, "Members", record_id,
                      Row(record_id, sqlite_name, 0, "sqlite"),
                      Row(record_id, mysql_name, 0, "sqlite"), sqlite_timestamp)
    IN  [stored.conflicts[1] EXCEPT !.mysql_timestamp = mysql_timestamp]

\* The rows a session can have stored: the two snapshots differ.
StoredConflicts ==
    {StoredConflict(i, n[1], n[2], t[1], t[2]) :
        i \in RecIds, n \in {m \in Names \X Names : m[1] # m[2]},
        t \in Times \X Times}

\* The state once DatabaseManager() is constructed on top of a SQLite file
\* and a MySQL database that earlier runs have written: the file is kept
\* between runs (and replaced by restore_from_backup), so the
\* ConflictResolution table and the primary rows are what they left.
ResolverInit ==
    /\ mysqlUp \in BOOLEAN
    /\ mysql_db \in [RecIds -> {NoRow} \cup {Row(i, n, 0, "mysql") : i \in RecIds, n \in Names}]
    /\ \A i \in RecIds : mysql_db[i] # NoRow => mysql_db[i].member_id = i
    /\ sqlite_db = [i \in RecIds |-> NoRow]
    /\ mysql_seq = MaxId
    /\ sqlite_seq = MaxId
    /\ sqlite_users = {}
    /\ SyncTracking = <<>>
    /\ ConflictResolution \in UNION {[1..n -> StoredConflicts] : n \in 0..MaxConflicts}
    /\ current_db_type = "none"
    /\ mysql_available = mysqlUp
    /\ sqlite_fallback_active = FALSE
    /\ connection_retry_count = 0
    /\ probe_due = FALSE
    /\ sync_status = "idle"
    /\ pc = [t \in Threads |-> "idle"]
    /\ crud = IdleCrud
    /\ last_run = NoRun
    /\ stop_sync = FALSE
    /\ loop = NoLoop

\* ------------------------------------------------------------ specification
CrudNext ==
    \/ \E name \in Names : create_member(name)
    \/ \E member_id \in RecIds, name \in Names : update_member(member_id, name)
    \/ \E member_id \in RecIds : delete_member(member_id)
    \/ \E username \in Usernames : create_user(username)
    \/ \E record_id \in RecIds : store_dividend_calculation(record_id)
    \/ log_transaction
    \/ TrackChange

EnvNext ==
    \/ MysqlGoesDown
    \/ MysqlComesUp
    \/ CheckIntervalElapses

\* A session runs from start to end, by whichever caller.
RunSync ==
    \/ SyncMonitorLoop
    \/ ForceSync
    \/ EdgeSync

\* Sessions run one at a time, each from start to end.
Next ==
    \/ EnvNext
    \/ CrudNext
    \/ RunSync

Spec == Init /\ [][Next]_vars

\* The threads of synchronize_databases interleaved statement by statement.
\* The user-interface thread runs either a CRUD function or force_sync.
ThreadsNext ==
    \/ EnvNext
    \/ (pc["manual"] = "idle" /\ Len(SyncTracking) < MaxThreadsTrack /\ CrudNext)
    \/ MonitorCall
    \/ ForceSyncCall
    \/ \E t \in Threads : SyncAlreadyInProgress(t)
    \/ \E t \in Threads : SyncEnter(t)
    \/ \E t \in Threads : SyncBegin(t)
    \/ \E t \in Threads : SyncRun(t)

ThreadsSpec == Init /\ [][ThreadsNext]_vars

\* The connection arbiter called directly: forced rechecks and connections
\* taken while the SQLite file can or cannot be opened.
ArbiterNext ==
    \/ EnvNext
    \/ force_mysql_reconnect
    \/ \E sqlite_ok \in BOOLEAN : connect_db(sqlite_ok)
    \/ EdgeSync

ArbiterSpec == Init /\ [][ArbiterNext]_vars

\* The conflict resolver called by the operator, between sessions.
ResolverNext ==
    \/ view_conflicts
    \/ \E conflict_id \in 1..MaxConflicts, resolution \in ConflictResolutionValues :
          resolve_conflict(conflict_id, resolution)
    \/ ForceSync
    \/ manual_sync

ResolverSpec == ResolverInit /\ [][ResolverNext]_vars

\* The CRUD functions, the session's for loop record by record, full
\* sessions, the status panel and the stop request.
LoopNext ==
    \/ MysqlGoesDown
    \/ MysqlComesUp
    \/ \E name \in Names : create_member(name)
    \/ \E member_id \in RecIds, name \in Names : update_member(member_id, name)
    \/ \E member_id \in RecIds : delete_member(member_id)
    \/ log_transaction
    \/ TrackChange
    \/ LoopEnter
    \/ LoopIterate
    \/ LoopExit
    \/ ForceSync
    \/ refresh_sync_status
    \/ stop_sync_monitoring

LoopSpec == Init /\ [][LoopNext]_vars

\* ------------------------------------------------------------------ claims
\* The ConflictResolution rows for the Members record record_id.
ConflictsFor(conflicts, record_id) ==
    {k \in 1..Len(conflicts) :
        conflicts[k].table_name = "Members" /\ conflicts[k].record_id = record_id}

\* The pending SyncTracking rows for the Members record record_id.
PendingFor(record_id) ==
    {i \in 1..Len(SyncTracking) :
        /\ SyncTracking[i].table_name = "Members"
        /\ SyncTracking[i].record_id = record_id
        /\ SyncTracking[i].sync_status = "pending"}

\* The primary row carries the data of the secondary row (or both are absent).
SameRow(primary, secondary) ==
    IF primary = NoRow \/ secondary = NoRow
    THEN primary = secondary
    ELSE /\ primary.member_id = secondary.member_id
         /\ primary.name = secondary.name
         /\ primary.status = secondary.status

\* seq lists the pending rows of tracking in capture order: ascending
\* timestamp, equal timestamps in insertion (sync_id) order.
IsCaptureOrder(seq, tracking) ==
    LET P == {i \in 1..Len(tracking) : tracking[i].sync_status = "pending"}
    IN  /\ Len(seq) = Cardinality(P)
        /\ {seq[k] : k \in 1..Len(seq)} = P
        /\ \A a, b \in 1..Len(seq) :
              a < b =>
                \/ tracking[seq[a]].timestamp < tracking[seq[b]].timestamp
                \/ /\ tracking[seq[a]].timestamp = tracking[seq[b]].timestamp
                   /\ seq[a] < seq[b]

\* C1: under every interleaving of the monitor loop, the edge-triggered thread
\* and manual sync calls, at most one thread is inside a sync session (past
\* the assignment sync_status = SYNCING) at any time.
C1_AtMostOneSession ==
    Cardinality({t \in Threads : pc[t] = "syncing"}) <= 1

\* C2: a session that meets a pending Update SyncRecord whose row exists in
\* the primary store and was not modified there since the change was tracked
\* applies the secondary row to the primary, marks the record synced and
\* creates no ConflictRecord.
C2_UnmodifiedUpdateApplied ==
    [][\A i \in 1..Len(SyncTracking) :
          ( /\ RunSync
            /\ mysqlUp
            /\ SyncTracking[i].operation = "UPDATE"
            /\ SyncTracking[i].sync_status = "pending"
            /\ ~SyncTracking[i].primary_touched
            /\ mysql_db[SyncTracking[i].record_id] # NoRow
            /\ sqlite_db[SyncTracking[i].record_id] # NoRow )
          => /\ SyncTracking'[i].sync_status = "synced"
             /\ SameRow(mysql_db'[SyncTracking[i].record_id],
                        sqlite_db[SyncTracking[i].record_id])
             /\ Len(ConflictResolution') = Len(ConflictResolution)]_vars

\* C3: a record updated on the secondary store during fallback and then
\* written independently on the primary store before sync gives, in the next
\* session, exactly one ConflictRecord for it, whose mysql_data is the
\* primary's current row and whose sqlite_data is the secondary's row.
C3_OneConflictForDivergedUpdate ==
    [][\A i \in 1..Len(SyncTracking) :
          ( /\ RunSync
            /\ mysqlUp
            /\ SyncTracking[i].operation = "UPDATE"
            /\ SyncTracking[i].sync_status = "pending"
            /\ SyncTracking[i].primary_touched
            /\ mysql_db[SyncTracking[i].record_id] # NoRow
            /\ ConflictsFor(ConflictResolution, SyncTracking[i].record_id) = {} )
          => LET id == SyncTracking[i].record_id
                 found == ConflictsFor(ConflictResolution', id)
             IN  /\ Cardinality(found) = 1
                 /\ \A k \in found :
                       /\ ConflictResolution'[k].mysql_data = mysql_db[id]
                       /\ ConflictResolution'[k].sqlite_data = sqlite_db[id]]_vars

C5_FallbackMutationTrackedOnce ==
    [][(crud.pc # "idle" /\ crud'.pc = "idle" /\ crud.wrote)
          => /\ Len(SyncTracking') = crud.before + 1
             /\ SyncTracking'[Len(SyncTracking')].sync_status = "pending"]_vars

\* C6: for a record whose whole history is on the secondary store (pending
\* changes, no primary row, no primary-side write) a session with the server
\* reachable ends with the primary row equal to the secondary's final row, or
\* absent in both, and with no ConflictRecord for it.
C6_PrimaryReflectsFinalSecondary ==
    [][\A id \in RecIds :
          ( /\ RunSync
            /\ mysqlUp
            /\ PendingFor(id) # {}
            /\ mysql_db[id] = NoRow
            /\ \A i \in PendingFor(id) : ~SyncTracking[i].primary_touched )
          => /\ SameRow(mysql_db'[id], sqlite_db[id])
             /\ ConflictsFor(ConflictResolution', id) = {}]_vars

\* C7: a session with the server reachable hands the pending SyncRecords to
\* _sync_record in capture order: ascending timestamp, equal timestamps in
\* the order of insertion.
C7_ProcessedInCaptureOrder ==
    [][(RunSync /\ mysqlUp) => IsCaptureOrder(last_run'.processed, SyncTracking)]_vars

\* C8: when a session meets a conflict (a pending Insert SyncRecord whose row
\* already exists in the primary store), it creates a ConflictRecord with both
\* snapshots, resolution_strategy manual and resolved false, and the
\* SyncRecord is no longer pending after the session.
C8_ConflictRecordedAndMarked ==
    [][\A i \in 1..Len(SyncTracking) :
          ( /\ RunSync
            /\ mysqlUp
            /\ SyncTracking[i].operation = "INSERT"
            /\ SyncTracking[i].sync_status = "pending"
            /\ mysql_db[SyncTracking[i].record_id] # NoRow )
          => LET id == SyncTracking[i].record_id
             IN  /\ \E k \in (Len(ConflictResolution) + 1)..Len(ConflictResolution') :
                       /\ ConflictResolution'[k].record_id = id
                       /\ ConflictResolution'[k].sqlite_data = sqlite_db[id]
                       /\ ConflictResolution'[k].mysql_data = mysql_db[id]
                       /\ ConflictResolution'[k].resolution_strategy = "manual"
                       /\ ~ConflictResolution'[k].resolved
                 /\ SyncTracking'[i].sync_status # "pending"]_vars

\* C9: a session that meets a pending Insert SyncRecord, the only pending
\* change of its record, whose secondary row exists: if the primary store
\* already has the row a conflict is recorded for it; otherwise the secondary
\* row is inserted into the primary and the SyncRecord is marked synced.
C9_InsertConflictOrApplied ==
    [][\A i \in 1..Len(SyncTracking) :
          ( /\ RunSync
            /\ mysqlUp
            /\ SyncTracking[i].operation = "INSERT"
            /\ PendingFor(SyncTracking[i].record_id) = {i}
            /\ sqlite_db[SyncTracking[i].record_id] # NoRow )
          => LET id == SyncTracking[i].record_id
             IN  IF mysql_db[id] # NoRow
                 THEN /\ Cardinality(ConflictsFor(ConflictResolution', id))
                            > Cardinality(ConflictsFor(ConflictResolution, id))
                      /\ mysql_db'[id] = mysql_db[id]
                 ELSE /\ SameRow(mysql_db'[id], sqlite_db[id])
                      /\ SyncTracking'[i].sync_status = "synced"]_vars

\* The pending row i is the first of the pending rows of its record in the
\* order the session fetches them.
FirstPendingFor(i) ==
    LET rows == PendingRows(SyncTracking)
        At(j) == CHOOSE k \in 1..Len(rows) : rows[k] = j
    IN  /\ SyncTracking[i].sync_status = "pending"
        /\ \A j \in PendingFor(SyncTracking[i].record_id) : At(i) <= At(j)

\* The pending row i is the last of the pending rows of its record in the
\* order the session fetches them.
LastPendingFor(i) ==
    LET rows == PendingRows(SyncTracking)
        At(j) == CHOOSE k \in 1..Len(rows) : rows[k] = j
    IN  /\ SyncTracking[i].sync_status = "pending"
        /\ \A j \in PendingFor(SyncTracking[i].record_id) : At(j) <= At(i)

\* The ConflictResolution rows a step adds for the Members record record_id.
NewConflictsFor(record_id) ==
    {k \in ConflictsFor(ConflictResolution', record_id) : k > Len(ConflictResolution)}

\* C11: a session that comes to a pending Update SyncRecord while its record
\* has a secondary row and no primary row (the update is the first pending
\* change of the record) inserts the secondary row into the primary store
\* and marks the SyncRecord synced; it records no conflict against an absent
\* primary row.
C11_UpdateOfAbsentInserted ==
    [][\A i \in 1..Len(SyncTracking) :
          ( /\ RunSync
            /\ mysqlUp
            /\ SyncTracking[i].operation = "UPDATE"
            /\ FirstPendingFor(i)
            /\ mysql_db[SyncTracking[i].record_id] = NoRow
            /\ sqlite_db[SyncTracking[i].record_id] # NoRow )
          => LET id == SyncTracking[i].record_id
             IN  /\ SyncTracking'[i].sync_status = "synced"
                 /\ SameRow(mysql_db'[id], sqlite_db[id])
                 /\ \A k \in NewConflictsFor(id) :
                       ConflictResolution'[k].mysql_data # NoRow]_vars

\* C12: a session that comes to a pending Delete SyncRecord, the last pending
\* change of its record, marks it synced and leaves no primary row for the
\* record, whether the primary row existed or not; the delete itself adds no
\* ConflictRecord (at most one per other pending change of the record).
C12_DeleteAppliedNoConflict ==
    [][\A i \in 1..Len(SyncTracking) :
          ( /\ RunSync
            /\ mysqlUp
            /\ SyncTracking[i].operation = "DELETE"
            /\ LastPendingFor(i) )
          => LET id == SyncTracking[i].record_id
             IN  /\ SyncTracking'[i].sync_status = "synced"
                 /\ mysql_db'[id] = NoRow
                 /\ Cardinality(NewConflictsFor(id))
                        <= Cardinality(PendingFor(id)) - 1]_vars

\* C13: a record created and then deleted on the secondary store during
\* fallback, never written to the primary: a session with the server
\* reachable raises no per-record error for it, leaves all of its SyncRecords
\* synced and leaves no primary row for it.
C13_CreateThenDeleteSynced ==
    [][\A id \in RecIds :
          ( /\ RunSync
            /\ mysqlUp
            /\ sqlite_db[id] = NoRow
            /\ mysql_db[id] = NoRow
            /\ \E i \in PendingFor(id) : SyncTracking[i].operation = "INSERT"
            /\ \E i \in PendingFor(id) : SyncTracking[i].operation = "DELETE"
            /\ \A i \in PendingFor(id) : ~SyncTracking[i].primary_touched )
          => /\ \A i \in PendingFor(id) : SyncTracking'[i].sync_status = "synced"
             /\ \A k \in 1..Len(last_run'.failed) :
                   SyncTracking[last_run'.failed[k]].record_id # id
             /\ mysql_db'[id] = NoRow]_vars

\* C14: a session in which the processing of one pending SyncRecord raises
\* (an Insert whose row is in neither store, so the row to insert is None)
\* while every other pending SyncRecord is a Delete: the raising record stays
\* pending, every other pending record ends synced or conflicted, and the
\* session ends completed or with conflicts, not in error.
C14_OneBadRecordDoesNotAbort ==
    [][\A i \in 1..Len(SyncTracking) :
          ( /\ RunSync
            /\ mysqlUp
            /\ SyncTracking[i].operation = "INSERT"
            /\ FirstPendingFor(i)
            /\ sqlite_db[SyncTracking[i].record_id] = NoRow
            /\ mysql_db[SyncTracking[i].record_id] = NoRow
            /\ \A j \in 1..Len(SyncTracking) :
                  (j # i /\ SyncTracking[j].sync_status = "pending")
                      => SyncTracking[j].operation = "DELETE" )
          => /\ sync_status' \in {"completed", "conflict"}
             /\ SyncTracking'[i].sync_status = "pending"
             /\ \A j \in 1..Len(SyncTracking) :
                   (j # i /\ SyncTracking[j].sync_status = "pending")
                       => SyncTracking'[j].sync_status \in {"synced", "conflicted"}]_vars

\* C15: a session that ran ends completed when it found zero conflicts, with
\* conflicts when it found at least one, and in error only when the primary
\* store was unreachable.
C15_OutcomeMatchesConflicts ==
    [][(RunSync /\ sync_status # "syncing")
          => /\ sync_status' \in {"completed", "conflict", "error"}
             /\ sync_status' = "error" => ~mysqlUp
             /\ sync_status' = "completed" => last_run'.conflicts_found = 0
             /\ sync_status' = "conflict" => last_run'.conflicts_found >= 1]_vars

\* C16: after a session has ended (completed, with conflicts or in error),
\* while the primary store is reachable and pending SyncRecords exist, the
\* next iteration of the monitor loop can start a new session.
C16_MonitorRunsAgain ==
    ( /\ sync_status \in {"completed", "conflict", "error"}
      /\ mysqlUp
      /\ PendingRows(SyncTracking) # <<>> )
        => ENABLED SyncMonitorLoop

\* A step that calls connect_db(), and so DatabaseManager.get_connection.
CallsGetConnection ==
    \/ \E name \in Names : create_member(name)
    \/ \E member_id \in RecIds, name \in Names : update_member(member_id, name)
    \/ \E member_id \in RecIds : delete_member(member_id)
    \/ \E username \in Usernames : create_user(username)
    \/ log_transaction

\* The most recent health check failed: mysql_available holds the result of
\* the latest probe (the value line 4520 returns between probes).
LastProbeFailed == ~mysql_available

\* C17: every get_connection whose health probe succeeds while the arbiter is
\* in Secondary mode (the last connection went to SQLite, for whatever
\* reason) ends in Primary mode with connection_retry_count = 0 and has
\* started the edge-triggered sync thread.
C17_ReconnectSchedulesSync ==
    [][( /\ CallsGetConnection
         /\ probe_due
         /\ mysqlUp
         /\ current_db_type = "sqlite" )
          => /\ current_db_type' = "mysql"
             /\ connection_retry_count' = 0
             /\ pc'["edge"] = "start"]_vars

\* C18: in every reachable state sqlite_fallback_active is true if and only
\* if the most recent health check against the primary store failed.
C18_FallbackIffLastProbeFailed ==
    sqlite_fallback_active <=> LastProbeFailed

\* C19: every get_connection whose health probe fails adds one to
\* connection_retry_count and ends in Secondary mode with
\* sqlite_fallback_active set.
C19_FailedProbeCounted ==
    [][( /\ CallsGetConnection
         /\ probe_due
         /\ ~mysqlUp )
          => /\ connection_retry_count' = connection_retry_count + 1
             /\ current_db_type' = "sqlite"
             /\ sqlite_fallback_active']_vars

\* C20: a get_connection inside the rate-limit window performs no probe (the
\* probe result is unchanged) and returns a connection to the store of the
\* last-known mode: the mode does not change between probes.
C20_NoModeChangeBetweenProbes ==
    [][( /\ CallsGetConnection
         /\ ~probe_due
         /\ current_db_type # "none" )
          => /\ mysql_available' = mysql_available
             /\ current_db_type' = current_db_type]_vars

C22_ErrorIffBothUnreachable ==
    [][\A sqlite_ok \in BOOLEAN :
          connect_db(sqlite_ok)
          => /\ (last_run'.returned = "raise") <=> (~mysqlUp /\ ~sqlite_ok)
             /\ (~mysqlUp /\ sqlite_ok) => last_run'.returned = "sqlite"]_vars

\* C23: tracking a change is a no-op when the table is not enrolled or the
\* mode is Primary: every tracking row names an enrolled table, and a step
\* that adds a tracking row ends in Fallback mode.
C23_TrackOnlyEnrolledInFallback ==
    [][/\ \A i \in 1..Len(SyncTracking') :
             SyncTracking'[i].table_name \in sync_tables
       /\ Len(SyncTracking') > Len(SyncTracking) => current_db_type' = "sqlite"
       /\ (\E record_id \in RecIds : store_dividend_calculation(record_id))
             => SyncTracking' = SyncTracking
       /\ (TrackChange /\ current_db_type = "mysql") => SyncTracking' = SyncTracking]_vars

\* A dividend calculation was stored in Fallback mode.
C23_UnenrolledTableWritten ==
    /\ "call" \in DOMAIN last_run
    /\ last_run.call = "store_dividend_calculation"
    /\ current_db_type = "sqlite"

\* C24: when tracking fails, the failure is swallowed: the business operation
\* that made the call completes normally and what it wrote stays written.
C24_TrackingFailureSwallowed ==
    [][(crud.pc = "track" /\ crud'.pc # "track")
          => (crud' = IdleCrud /\ UNCHANGED stores)]_vars

\* A tracking failure was swallowed after a member row was written.
C24_TrackerRaised ==
    /\ "call" \in DOMAIN last_run
    /\ last_run.call = "track_change"
    /\ crud = IdleCrud
    /\ Len(SyncTracking) = 0
    /\ \E i \in RecIds : sqlite_db[i] # NoRow

\* The conflict id names a stored, unresolved conflict.
Unresolved(conflict_id) ==
    /\ conflict_id \in 1..Len(ConflictResolution)
    /\ ~ConflictResolution[conflict_id].resolved

Listed(row) ==
    [table_name |-> row.table_name, record_id |-> row.record_id,
     sqlite_data |-> row.sqlite_data, mysql_data |-> row.mysql_data,
     sqlite_timestamp |-> row.sqlite_timestamp,
     mysql_timestamp |-> row.mysql_timestamp,
     resolution_strategy |-> row.resolution_strategy]

C30_CallDuringSessionDropped ==
    [][\A t \in Threads :
          (/\ pc[t] = "start"
           /\ pc'[t] # "start"
           /\ \E u \in Threads \ {t} : pc[u] = "syncing")
             => /\ pc'[t] = "idle"
                /\ UNCHANGED <<SyncTracking, ConflictResolution, mysql_db,
                               mysql_seq, sync_status>>]_vars

\* C31: a SyncRecord is created for a mutation if and only if the mutation
\* was executed against the secondary store: a connection taken between a
\* CRUD function's write and its tracking call never leaves a secondary
\* write untracked nor gets a primary write tracked.  (Tracking calls whose
\* own INSERT failed are left out.)
C31_TrackedIffWrittenToSecondary ==
    [][(TrackChange /\ "call" \notin DOMAIN last_run')
          => /\ crud.wrote => Len(SyncTracking') = Len(SyncTracking) + 1
             /\ Len(SyncTracking') > Len(SyncTracking) => crud.conn = "sqlite"]_vars

\* The columns of a SyncTracking row (primary_touched is history).
Columns(row) ==
    [table_name |-> row.table_name, record_id |-> row.record_id,
     operation |-> row.operation, timestamp |-> row.timestamp,
     data_hash |-> row.data_hash, sync_status |-> row.sync_status]

C35_StatusCountsMatch ==
    [][refresh_sync_status
          => /\ last_run'.returned.result = "none"
             /\ last_run'.returned.pending_records =
                   Cardinality({i \in 1..Len(SyncTracking) :
                                   SyncTracking[i].sync_status = "pending"})
             /\ last_run'.returned.conflicts =
                   Cardinality({k \in 1..Len(ConflictResolution) :
                                   ~ConflictResolution[k].resolved})]_vars

C37_CrudNeverWaitsForSession ==
    /\ crud.pc = "track" => ENABLED TrackChange
    /\ (crud.pc = "audit"
          /\ (_check_mysql_availability.trigger => pc["edge"] = "idle"))
           => ENABLED log_transaction

\* A CRUD function has gone on to its tracking call while the sync thread
\* its connection started has not begun its session and the monitor's
\* session is running.
C37_ReturnedBeforeSessionBegan ==
    /\ crud.pc = "track"
    /\ pc["edge"] = "start"
    /\ pc["monitor"] = "syncing"

====
